---- MODULE Spec2Model ----
(***************************************************************************)
(* A model of bitfield.py: the BitField class (mask construction, extract, *)
(* insert, extract_signed) and the free function sign_extend.              *)
(*                                                                         *)
(* Python integers are unbounded.  A non-negative integer is modelled by   *)
(* the set of the positions of its one-bits (bit 0 is the low-order bit),  *)
(* so that no width is imposed that the source does not impose.  A signed  *)
(* integer is a record [neg, mag]: mag is the magnitude as such a set.     *)
(***************************************************************************)
EXTENDS Integers, FiniteSets, Sequences, TLC

WORD_SIZE == 32

\* Arguments of the constructor and of sign_extend range this far beyond
\* the legal bit positions 0 .. WORD_SIZE.
Slack == 2

\* Number of bits of a sample word that differ from its base pattern.
WordFlips == 2

\* Number of bits of a sample value that differ from its base pattern.
ValueFlips == 1

\* Number of bits of a sample field of sign_extend that differ from its base
\* pattern.
FieldFlips == 1

\* The results are also compared as numbers where every integer involved is
\* below 2^NumBits.
NumBits == 29

-----------------------------------------------------------------------------
(* Python int operators on non-negative integers (sets of bit positions).  *)

One == {0}

Shl(x, n) == {i + n : i \in x}

Shr(x, n) == {i - n : i \in {j \in x : j >= n}}

BitAnd(x, y) == x \cap y

BitOr(x, y) == x \cup y

Top(x) == IF x = {} THEN -1 ELSE CHOOSE i \in x : \A j \in x : j <= i

\* x < y
NatLess(x, y) ==
    LET d == (x \ y) \cup (y \ x)
    IN  d # {} /\ Top(d) \in y

RECURSIVE Borrow(_, _, _, _, _)
\* Bits i .. top of x - y, given the borrow into position i (x >= y).
Borrow(x, y, i, b, top) ==
    IF i > top THEN {}
    ELSE LET xi == IF i \in x THEN 1 ELSE 0
             yi == IF i \in y THEN 1 ELSE 0
             d  == xi - yi - b
         IN  (IF d % 2 = 1 THEN {i} ELSE {})
                \cup Borrow(x, y, i + 1, IF d < 0 THEN 1 ELSE 0, top)

\* x - y for x >= y
NatSub(x, y) == Borrow(x, y, 0, 0, Top(x))

(* Signed integers.                                                        *)

Pos(x) == [neg |-> FALSE, mag |-> x]

Neg(x) == [neg |-> x # {}, mag |-> x]

Zero == Pos({})

\* x - y for non-negative x and y, as a signed integer
IntSub(x, y) == IF NatLess(x, y) THEN Neg(NatSub(y, x)) ELSE Pos(NatSub(x, y))

-----------------------------------------------------------------------------
(* class BitField                                                          *)

RECURSIVE MaskOnes(_, _)
\* for i in range(n): mask = (mask << 1) | 1
MaskOnes(mask, n) ==
    IF n <= 0 THEN mask ELSE MaskOnes(BitOr(Shl(mask, 1), One), n - 1)

RECURSIVE MaskShift(_, _)
\* for i in range(n): mask = mask << 1
MaskShift(mask, n) ==
    IF n <= 0 THEN mask ELSE MaskShift(Shl(mask, 1), n - 1)

BuildMaskShort(from_bit, to_bit) ==
    MaskShift(MaskOnes({}, to_bit - from_bit), from_bit)

BuildMask(from_bit, to_bit) ==
    MaskShift(MaskOnes({}, to_bit - from_bit + 1), from_bit)

ValidRangeTight(from_bit, to_bit) ==
    /\ 0 <= from_bit /\ from_bit < WORD_SIZE
    /\ from_bit <= to_bit /\ to_bit < WORD_SIZE

\* the two assertions of __init__
ValidRange(from_bit, to_bit) ==
    /\ 0 <= from_bit /\ from_bit < WORD_SIZE
    /\ from_bit <= to_bit /\ to_bit <= WORD_SIZE

NewBitField(from_bit, to_bit) ==
    [from_bit |-> from_bit, to_bit |-> to_bit,
     mask |-> BuildMask(from_bit, to_bit)]

\* the value of self while no object exists
NoField == [from_bit |-> 0, to_bit |-> 0, mask |-> {}]

extract_unshifted(bf, w) == BitAnd(bf.mask, w)

extract(bf, w) == Shr(BitAnd(bf.mask, w), bf.from_bit)

insert_unmasked(bf, v, w) == BitOr(w, Shl(v, bf.from_bit))

insert_unshifted(bf, v, w) == BitOr(w, BitAnd(v, bf.mask))

insert_replace(bf, v, w) ==
    BitOr(w \ bf.mask, BitAnd(Shl(v, bf.from_bit), bf.mask))

insert(bf, v, w) == BitOr(w, BitAnd(Shl(v, bf.from_bit), bf.mask))

-----------------------------------------------------------------------------
(* sign_extend                                                             *)

Faulted == [fault |-> TRUE, val |-> Zero]

Returned(x) == [fault |-> FALSE, val |-> x]

SignExtendPreTight(f, w) ==
    /\ w > 1
    /\ ~f.neg /\ NatLess(f.mag, Shl(One, w))

\* the two assertions of sign_extend
SignExtendPre(f, w) ==
    /\ w > 1
    /\ ~f.neg /\ NatLess(f.mag, Shl(One, w + 1))

SignBitHigh(w) == Shl(One, w)

SignBit(w) == Shl(One, w - 1)

sign_extend(f, w) ==
    IF ~SignExtendPre(f, w) THEN Faulted
    ELSE LET sign_bit == SignBit(w)
             mask     == NatSub(sign_bit, One)
         IN  IF BitAnd(f.mag, sign_bit) # {}
             THEN Returned(IntSub(BitAnd(f.mag, mask), sign_bit))
             ELSE Returned(f)

extract_signed(bf, w) ==
    sign_extend(Pos(extract(bf, w)), bf.to_bit - bf.from_bit + 1)

-----------------------------------------------------------------------------
(* The arguments the operations are called with.                           *)

Flip(base, s) == (base \ s) \cup (s \ base)

UpTo(p, k) == {s \in SUBSET p : Cardinality(s) <= k}

AllBits == 0 .. (WORD_SIZE - 1)

BitArgs == (0 - Slack) .. (WORD_SIZE + Slack)

\* 32-bit words: nothing, everything, the field or everything but the
\* field, with up to WordFlips bits next to the ends of the field changed.
Words(bf) ==
    LET f == bf.from_bit
        t == bf.to_bit
        p == {f - 1, f, f + 1, t - 1, t, t + 1} \cap AllBits
        field == (f .. t) \cap AllBits
    IN  {Flip(base, s) : base \in {{}, AllBits, field, AllBits \ field},
                         s \in UpTo(p, WordFlips)}

\* non-negative values: zero or all ones in the width of the field, with up
\* to ValueFlips of the bits 0, width-1 and width changed.
Values(bf) ==
    LET n == bf.to_bit - bf.from_bit + 1
    IN  {Flip(base, s) : base \in {{}, 0 .. (n - 1)},
                         s \in UpTo({0, n - 1, n}, ValueFlips)}

\* signed fields for a width w
Fields(w) ==
    LET p == {0, w - 1, w, w + 1} \cap Nat
        m == {Flip(base, s) : base \in {{}, 0 .. (w - 1)},
                              s \in UpTo(p, FieldFlips)}
    IN  {Pos(x) : x \in m} \cup {Neg(x) : x \in m}

-----------------------------------------------------------------------------
VARIABLES
    self,     \* the BitField object
    live,     \* whether a BitField object exists
    op,       \* the call in progress, "none" between calls
    args,     \* its arguments
    result,   \* the value it returned, a signed integer
    fault     \* whether it raised AssertionError instead

vars == <<self, live, op, args, result, fault>>

Init ==
    /\ self = NoField
    /\ live = FALSE
    /\ op = "none"
    /\ args = [none |-> 0]
    /\ result = Zero
    /\ fault = FALSE

\* BitField(from_bit, to_bit): self is the object the call makes; when an
\* assertion fails there is none.
Construct ==
    /\ op = "none"
    /\ \E from_bit \in BitArgs, to_bit \in BitArgs :
        /\ op' = "init"
        /\ args' = [from_bit |-> from_bit, to_bit |-> to_bit]
        /\ result' = Zero
        /\ IF ValidRange(from_bit, to_bit)
           THEN /\ self' = NewBitField(from_bit, to_bit)
                /\ live' = TRUE
                /\ fault' = FALSE
           ELSE /\ self' = NoField
                /\ live' = FALSE
                /\ fault' = TRUE

\* self.extract(word)
Extract ==
    /\ op = "none"
    /\ live
    /\ \E word \in Words(self) :
        /\ op' = "extract"
        /\ args' = [word |-> word]
        /\ result' = Pos(extract(self, word))
        /\ fault' = FALSE
    /\ UNCHANGED <<self, live>>

\* self.insert(value, word)
Insert ==
    /\ op = "none"
    /\ live
    /\ \E word \in Words(self), value \in Values(self) :
        /\ op' = "insert"
        /\ args' = [value |-> value, word |-> word]
        /\ result' = Pos(insert(self, value, word))
        /\ fault' = FALSE
    /\ UNCHANGED <<self, live>>

\* self.extract_signed(word)
ExtractSigned ==
    /\ op = "none"
    /\ live
    /\ \E word \in Words(self) :
        /\ op' = "extract_signed"
        /\ args' = [word |-> word]
        /\ LET r == extract_signed(self, word)
           IN  result' = r.val /\ fault' = r.fault
    /\ UNCHANGED <<self, live>>

\* sign_extend(field, width), called on its own
SignExtend ==
    /\ op = "none"
    /\ \E width \in BitArgs : \E field \in Fields(width) :
        /\ op' = "sign_extend"
        /\ args' = [field |-> field, width |-> width]
        /\ LET r == sign_extend(field, width)
           IN  result' = r.val /\ fault' = r.fault
    /\ UNCHANGED <<self, live>>

\* the call returns to its caller, which is free to make the next call
Return ==
    /\ op # "none"
    /\ op' = "none"
    /\ args' = [none |-> 0]
    /\ result' = Zero
    /\ fault' = FALSE
    /\ UNCHANGED <<self, live>>

\* the BitField class
Next ==
    \/ Construct
    \/ Extract
    \/ Insert
    \/ ExtractSigned
    \/ Return

Spec == Init /\ [][Next]_vars

\* sign extension, called on its own and through a BitField
NextFn ==
    \/ Construct
    \/ ExtractSigned
    \/ SignExtend
    \/ Return

SpecFn == Init /\ [][NextFn]_vars

-----------------------------------------------------------------------------
(* The properties.                                                         *)

RECURSIVE Pow2(_)
Pow2(k) == IF k <= 0 THEN 1 ELSE 2 * Pow2(k - 1)

RECURSIVE Horner(_, _, _)
Horner(x, i, top) ==
    IF i > top THEN 0
    ELSE (IF i \in x THEN 1 ELSE 0) + 2 * Horner(x, i + 1, top)

\* the number a set of bit positions stands for
Val(x) == Horner(x, 0, Top(x))

\* x < 2^k
Below(x, k) == \A i \in x : i < k

Width == self.to_bit - self.from_bit + 1

FieldBits == self.from_bit .. self.to_bit

\* C1: round trip.  When value fits in the field (0 <= value < 2^width) and
\* the 32-bit word has zeros in bits from_bit..to_bit, extracting from the
\* word that insert(value, word) returned gives value back.
RoundTrip ==
    (/\ op = "insert"
     /\ Below(args.value, Width)
     /\ args.word \cap FieldBits = {})
        => extract(self, result.mag) = args.value

RoundTripWitness ==
    /\ op = "insert"
    /\ Below(args.value, Width)
    /\ args.word \cap FieldBits = {}
    /\ self.from_bit > 0
    /\ Width > 2
    /\ Cardinality(args.value) > 1
    /\ args.word # {}
    /\ extract(self, result.mag) = args.value

\* C2: for 0 <= from_bit <= to_bit <= 31 the mask the two loops build has
\* exactly to_bit-from_bit+1 one-bits, contiguous, the lowest at from_bit,
\* and equals ((1 << (to_bit-from_bit+1)) - 1) << from_bit.
MaskClosedForm ==
    (live /\ self.to_bit <= WORD_SIZE - 1) =>
        /\ Cardinality(self.mask) = Width
        /\ \A i \in self.mask : self.from_bit <= i /\ i <= self.to_bit
        /\ self.from_bit \in self.mask
        /\ self.mask = Shl(NatSub(Shl(One, Width), One), self.from_bit)
        /\ self.to_bit < NumBits =>
             Val(self.mask) = (Pow2(Width) - 1) * Pow2(self.from_bit)

MaskWitness ==
    /\ live
    /\ op = "init"
    /\ self.from_bit = 5
    /\ self.to_bit = WORD_SIZE - 1
    /\ Cardinality(self.mask) = 27

\* C4: insert truncates.  For every 32-bit word and non-negative value,
\* also one wider than the field, insert(value, word) returns what
\* insert(value & (mask >> from_bit), word) returns, and raises nothing.
InsertTruncates ==
    op = "insert" =>
        /\ ~fault
        /\ result.mag =
             insert(self, BitAnd(args.value, Shr(self.mask, self.from_bit)),
                    args.word)

InsertTruncatesWitness ==
    /\ op = "insert"
    /\ ~fault
    /\ ~Below(args.value, Width)
    /\ BitAnd(args.value, Shr(self.mask, self.from_bit)) # {}
    /\ self.from_bit > 0
    /\ self.to_bit < WORD_SIZE - 1

SignedRange ==
    (op = "extract_signed" /\ Width > 1) =>
        /\ ~fault
        /\ IF result.neg
           THEN result.mag = {Width - 1} \/ Below(result.mag, Width - 1)
           ELSE Below(result.mag, Width - 1)

SignedRangeWitness ==
    /\ op = "extract_signed"
    /\ self.from_bit = 0
    /\ self.to_bit = 7
    /\ args.word = 0 .. 7
    /\ ~fault
    /\ result = Neg(One)

\* C9: extract(word) is bits from_bit..to_bit of word, right-aligned: the
\* number (word div 2^from_bit) mod 2^(to_bit-from_bit+1), which is below
\* 2^(to_bit-from_bit+1).
ExtractIsField ==
    op = "extract" =>
        /\ ~fault
        /\ ~result.neg
        /\ result.mag = {i \in 0 .. (Width - 1) : i + self.from_bit \in args.word}
        /\ Below(result.mag, Width)
        /\ (self.to_bit < NumBits /\ Below(args.word, NumBits)) =>
             Val(result.mag) =
                (Val(args.word) \div Pow2(self.from_bit)) % Pow2(Width)

ExtractWitness ==
    /\ op = "extract"
    /\ self.from_bit > 1
    /\ self.to_bit < NumBits
    /\ Below(args.word, NumBits)
    /\ \E i \in args.word : i < self.from_bit
    /\ \E i \in args.word \cap FieldBits : i > self.from_bit
    /\ ~(FieldBits \subseteq args.word)
    /\ Val(args.word) > Val(result.mag)
    /\ Val(result.mag) > 1

\* C10: insert only ORs into the field.  Outside bits from_bit..to_bit the
\* result has the bits of word; the field of the result is the field of word
\* OR-ed with value mod 2^(to_bit-from_bit+1); no one-bit of word is cleared.
InsertOrs ==
    op = "insert" =>
        /\ result.mag \ FieldBits = args.word \ FieldBits
        /\ extract(self, result.mag) =
             extract(self, args.word) \cup {i \in args.value : i < Width}
        /\ args.word \subseteq result.mag

InsertOrsWitness ==
    /\ op = "insert"
    /\ args.word \cap FieldBits # {}
    /\ ~(args.word \cap FieldBits \subseteq Shl(args.value, self.from_bit))
    /\ ~({i \in args.value : i < Width} \subseteq extract(self, args.word))
    /\ args.word \ FieldBits # {}

\* C3: sign symmetry.  For width w > 1 and a field sign_extend accepts,
\* sign_extend(field, w) >= 0 exactly when field < 2^(w-1), and when
\* field >= 2^(w-1) the result is field - 2^w.
SignSymmetry ==
    (op = "sign_extend" /\ ~fault) =>
        /\ ~result.neg <=> Below(args.field.mag, args.width - 1)
        /\ ~Below(args.field.mag, args.width - 1) =>
             result = IntSub(args.field.mag, {args.width})

\* C8: nothing wider than 32 bits is observable.  The mask of every BitField
\* is in [0, 2^32 - 1], and so are extract(word) and insert(value, word) for
\* word and value in [0, 2^32 - 1].
Fits32 ==
    /\ live => Below(self.mask, WORD_SIZE)
    /\ (op = "extract" /\ Below(args.word, WORD_SIZE)) =>
         Below(result.mag, WORD_SIZE)
    /\ (/\ op = "insert"
        /\ Below(args.word, WORD_SIZE)
        /\ Below(args.value, WORD_SIZE)) => Below(result.mag, WORD_SIZE)

====
